---- MODULE Spec2Model ----
(***************************************************************************)
(* Model of the Redis-backed circuit breaker of nest-circuit-breaker:      *)
(* CircuitBreakerService.execute and its helpers, the RedisService         *)
(* commands it issues, and the passage of time that expires the counter.   *)
(***************************************************************************)
EXTENDS Integers, Sequences, FiniteSets, TLC

\* ------------------------------------------------------------------ bounds
\* Number of execute calls that can be in flight at the same time.
NumProcs == 2
\* Thresholds range over 1..MaxThreshold.
MaxThreshold == 2
\* Timeouts range over TickMs, 2*TickMs, ..., MaxTimeoutTicks*TickMs.
MaxTimeoutTicks == 3
\* No call starts on a key once this many failures were recorded for it and
\* not cleared (caps the counter).
MaxFailures == 3

\* Time advances in steps of half a second.
TickMs == 1000 \div 2

Procs == 1..NumProcs
Thresholds == 1..MaxThreshold
Timeouts == {i * TickMs : i \in 1..MaxTimeoutTicks}
\* The key argument of execute when the service is called directly (one
\* circuit per key). A string is kept as the sequence of its parts between
\* colons.
Keys == {<<"A">>}

\* ------------------------------------------------------------ JS values
\* JavaScript values handed to or returned by execute, by their literal.
JsNull == "null"
JsUndefined == "undefined"
FallbackValues == {JsUndefined, JsNull, "0", "false", "''", "{status:'unavailable'}"}
OperationResult == "result"

\* JavaScript truthiness of a value (the test of `if (fallbackResult)`).
Truthy(v) == v \notin {JsUndefined, JsNull, "0", "false", "''"}

\* A default parameter value replaces undefined only.
DefaultParam(v, d) == IF v = JsUndefined THEN d ELSE v

\* ---------------------------------------------------------------- errors
NoError == [http |-> FALSE, status |-> 0, msg |-> "none"]
\* new HttpException(msg, status)
HttpException(msg, status) == [http |-> TRUE, status |-> status, msg |-> msg]
\* new Error(msg), or any error that is no HttpException
PlainError(msg) == [http |-> FALSE, status |-> 0, msg |-> msg]

SERVICE_UNAVAILABLE == 503
TOO_MANY_REQUESTS == 429

CircuitOpenError ==
  HttpException("Service is unavailable - Circuit Breaker is open", SERVICE_UNAVAILABLE)
IncrementFailedError == PlainError("Failed to increment circuit breaker error count")
ExpireFailedError == PlainError("Failed to set circuit breaker error count expiration")
\* What the redis client raises when a command cannot be carried out.
RedisError == PlainError("redis")
\* What it raises when the GET of the status read cannot be carried out.
RedisGetError == PlainError("redis GET")

\* Statuses of the HttpExceptions the protected operation may raise.
OperationStatuses == {404, 429, 500, 600}
\* Errors the protected operation may raise.
OperationErrors ==
  {HttpException("operation", s) : s \in OperationStatuses} \cup {PlainError("operation")}

\* execute, lines 102-105: the errors that are counted.
IsTripWorthy(error) ==
  error.http /\ (error.status >= 500 \/ error.status = TOO_MANY_REQUESTS)

\* ------------------------------------------------------ strings of digits
\* A redis string value holding a decimal number: the sequence of its digits.
RECURSIVE IntToString(_)
IntToString(n) ==
  IF n < 10 THEN <<n>> ELSE Append(IntToString(n \div 10), n % 10)

\* JavaScript parseInt on a string of digits: NaN for the empty string.
NaN == [nan |-> TRUE, n |-> 0]
RECURSIVE ParseDigits(_, _)
ParseDigits(s, acc) ==
  IF s = <<>> THEN acc ELSE ParseDigits(Tail(s), 10 * acc + Head(s))
ParseInt(s) == IF s = <<>> THEN NaN ELSE [nan |-> FALSE, n |-> ParseDigits(s, 0)]
\* JavaScript x >= y where x may be NaN.
JsGeq(x, y) == ~x.nan /\ x.n >= y

\* ------------------------------------------------------------- the store
CIRCUIT_BREAKER_KEY_PREFIX == "circuit-breaker"
\* config.serviceName ?? 'service'
getCircuitBreakerServiceName == "service"
\* The key argument left out of the store key.
getCircuitBreakerKey_NoKey(key) ==
  <<CIRCUIT_BREAKER_KEY_PREFIX, getCircuitBreakerServiceName>>
\* `${CIRCUIT_BREAKER_KEY_PREFIX}:${serviceName}:${key}`
getCircuitBreakerKey(key) ==
  <<CIRCUIT_BREAKER_KEY_PREFIX, getCircuitBreakerServiceName>> \o key

\* ---------------------------------------------------------- the decorators
\* The fields of a CircuitBreakerConfig.
Fields == {"threshold", "timeout", "fallbackResult", "key"}
\* An object is the function from its own properties to their values (the
\* literals of JavaScript values); {} has no property.
NoProps == [f \in {} |-> JsUndefined]
\* o.f
Prop(o, f) == IF f \in DOMAIN o THEN o[f] ELSE JsUndefined
\* A spread in which the earlier object wins.
Spread_FirstWins(a, b) ==
  [f \in DOMAIN a \cup DOMAIN b |-> IF f \in DOMAIN a THEN a[f] ELSE b[f]]
\* { ...a, ...b }: every own property of b, explicit undefined included,
\* replaces that of a.
Spread(a, b) ==
  [f \in DOMAIN a \cup DOMAIN b |-> IF f \in DOMAIN b THEN b[f] ELSE a[f]]

DEFAULT_CIRCUIT_BREAKER_CONFIG == [threshold |-> "3", timeout |-> "10000"]
\* { ...DEFAULT_CIRCUIT_BREAKER_CONFIG, ...classConfig, ...methodConfig }
MergeConfig(classCfg, methodCfg) ==
  Spread(Spread(DEFAULT_CIRCUIT_BREAKER_CONFIG, classCfg), methodCfg)

\* The key built from the name of the method in place of the class.
redisKey_PerMethod(serviceName, method, finalCfg) ==
  IF Truthy(Prop(finalCfg, "key"))
  THEN <<CIRCUIT_BREAKER_KEY_PREFIX, method, finalCfg["key"]>>
  ELSE <<CIRCUIT_BREAKER_KEY_PREFIX, method>>
\* The key the wrapper of `method` of class serviceName hands to execute:
\* `circuit-breaker:${serviceName}:${finalConfig.key}` or, without a key,
\* `circuit-breaker:${serviceName}`.
redisKey(serviceName, method, finalCfg) ==
  IF Truthy(Prop(finalCfg, "key"))
  THEN <<CIRCUIT_BREAKER_KEY_PREFIX, serviceName, finalCfg["key"]>>
  ELSE <<CIRCUIT_BREAKER_KEY_PREFIX, serviceName>>

\* A class with three protected methods: two decorated without a key, one
\* with a key of its own.
ServiceClass == "ExternalApiService"
Methods == {"getUserData", "updateUserData", "criticalOperation"}
NoMethod == "none"
MethodConfigOf(method) ==
  IF method = "criticalOperation" THEN [key |-> "critical-operation"] ELSE NoProps
\* The key argument the wrapper of each method hands to execute, the class
\* having no configuration of its own.
WrapperKey ==
  [m \in Methods |->
     redisKey(ServiceClass, m, MergeConfig(NoProps, MethodConfigOf(m)))]
WrapperKeys == {WrapperKey[m] : m \in Methods}
\* The methods whose wrapper builds the key without a key of the method's own.
Unkeyed ==
  {m \in Methods : ~Truthy(Prop(MergeConfig(NoProps, MethodConfigOf(m)), "key"))}
\* The counter that execute reads and writes for the calls through each method.
CounterOf == [m \in Methods |-> getCircuitBreakerKey(WrapperKey[m])]

\* The values a field is set to in the configurations explored.
ConfigValues(f) ==
  CASE f = "threshold" -> {JsUndefined, "5", "10"}
    [] f = "timeout" -> {JsUndefined, "30000", "60000"}
    [] f = "fallbackResult" -> {JsUndefined, JsNull, "{status:'unavailable'}"}
    [] f = "key" -> {JsUndefined, "''", "critical-operation"}
\* The configuration objects: each field absent, or set to one of its values.
Configs ==
  UNION {{o \in [S -> UNION {ConfigValues(f) : f \in Fields}] :
            \A f \in S : o[f] \in ConfigValues(f)} : S \in SUBSET Fields}

\* typeof v, for the values of the configurations explored.
NumberLiterals == {"3", "5", "10", "10000", "30000", "60000"}
JsTypeOf(v) ==
  IF v = JsUndefined THEN "undefined"
  ELSE IF v \in NumberLiterals THEN "number"
  ELSE IF v = JsNull THEN "object"
  ELSE "string"
\* The arguments after fn that the wrapper hands to execute: redisKey,
\* finalConfig.threshold!, finalConfig.timeout!, finalConfig.fallbackResult.
\* The non-null assertions are erased at compile time.
ExecuteArgs(serviceName, method, finalCfg) ==
  [key |-> redisKey(serviceName, method, finalCfg),
   threshold |-> Prop(finalCfg, "threshold"),
   timeout |-> Prop(finalCfg, "timeout"),
   fallbackResult |-> Prop(finalCfg, "fallbackResult")]

\* The store keys of the circuits of these key arguments.
StoreKeysOf(keys) == {getCircuitBreakerKey(k) : k \in keys}

\* A redis key: absent, or an integer value with a remaining time to live in
\* milliseconds (NoTtl: the key never expires).
NoTtl == 0 - 1
Absent == [present |-> FALSE, value |-> 0, ttl |-> NoTtl]

\* GET: the value as a string, or null.
NullReply == [isNull |-> TRUE, str |-> <<>>]
RedisGet(st, rk) ==
  IF st[rk].present THEN [isNull |-> FALSE, str |-> IntToString(st[rk].value)]
  ELSE NullReply
\* A DEL that names another key than the counter's.
RedisDel_OtherKey(st, rk) == st
\* DEL
RedisDel(st, rk) == [st EXCEPT ![rk] = Absent]
\* INCR: creates the key at 1 without a time to live, else adds 1 and keeps
\* the time to live.
RedisIncr(st, rk) ==
  IF st[rk].present THEN [st EXCEPT ![rk].value = @ + 1]
  ELSE [st EXCEPT ![rk] = [present |-> TRUE, value |-> 1, ttl |-> NoTtl]]
\* EXPIRE: nothing on an absent key; deletes the key when seconds <= 0; else
\* sets the time to live.
RedisExpire(st, rk, seconds) ==
  IF ~st[rk].present THEN st
  ELSE IF seconds <= 0 THEN [st EXCEPT ![rk] = Absent]
  ELSE [st EXCEPT ![rk].ttl = seconds * 1000]

\* ------------------------------------------------------ the service
OPEN == "OPEN"
CLOSED == "CLOSED"

\* The comparison with > in place of >=.
StatusOfCount_Strict(count, thr) ==
  IF count.isNull \/ count.str = <<>> THEN CLOSED
  ELSE IF JsGeq(ParseInt(count.str), thr + 1) THEN OPEN
  ELSE CLOSED
\* getCircuitBreakerStatus, after the GET returned `count`
StatusOfCount(count, thr) ==
  IF count.isNull \/ count.str = <<>> THEN CLOSED
  ELSE IF JsGeq(ParseInt(count.str), thr) THEN OPEN
  ELSE CLOSED

getCircuitBreakerStatus(st, key, thr) ==
  StatusOfCount(RedisGet(st, getCircuitBreakerKey(key)), thr)

\* The milliseconds handed to EXPIRE as they are.
ExpireSeconds_Milliseconds(ms) == ms
\* Math.floor(timeout / 1000): the seconds handed to EXPIRE
ExpireSeconds(ms) == ms \div 1000

\* How an execute call ends.
NoOutcome == [kind |-> "none", value |-> JsNull, error |-> NoError]
Return(v) == [kind |-> "return", value |-> v, error |-> NoError]
Throw(e) == [kind |-> "throw", value |-> JsNull, error |-> e]

\* The fallback tested with `!== undefined` in place of its truthiness.
OpenOutcome_DefinedTest(fallback) ==
  IF fallback # JsUndefined THEN Return(fallback) ELSE Throw(CircuitOpenError)
\* execute, lines 81-90: the circuit is OPEN
OpenOutcome(fallback) ==
  IF Truthy(fallback) THEN Return(fallback) ELSE Throw(CircuitOpenError)

\* A failed status read taken for a CLOSED circuit.
StatusFailure_FailOpen(e) == NoOutcome
\* getCircuitBreakerStatus, line 31, and execute, line 76: the rejection of
\* the GET is not caught, so execute rejects with the same error.
StatusFailure(e) == Throw(e)

\* A rejected call counted as one more failure.
OpenStore_Counted(st, rk) == RedisIncr(st, rk)
\* execute, lines 81-90: the store after the call found the circuit OPEN; no
\* command is issued.
OpenStore(st, rk) == st

\* The results of the pipeline: null, or one [error, result] pair per command
\* (only the error part is kept).
NoResults == <<>>
PipelineResults(incrError, expireError) == <<incrError, expireError>>
\* A missing result list taken for a pipeline without errors.
HandleResults_NullIsOk(results) ==
  IF results = NoResults THEN NoOutcome
  ELSE IF results[1] # NoError THEN Throw(IncrementFailedError)
  ELSE IF results[2] # NoError THEN Throw(ExpireFailedError)
  ELSE NoOutcome
\* The check of the EXPIRE result left out.
HandleResults_IncrOnly(results) ==
  IF results = NoResults \/ results[1] # NoError THEN Throw(IncrementFailedError)
  ELSE NoOutcome
\* handleCircuitBreakerError, lines 53-66: what is thrown for these results
HandleResults(results) ==
  IF results = NoResults \/ results[1] # NoError THEN Throw(IncrementFailedError)
  ELSE IF results[2] # NoError THEN Throw(ExpireFailedError)
  ELSE NoOutcome

VARIABLES
  classConfig, \* the configuration the class decorator stored
  methodConfig,\* the configuration the method decorator stored
  finalConfig, \* the configuration the wrapper merged from them, once it has
  limit,       \* how many calls the callers let be in flight at a time
  threshold,   \* the threshold argument of the calls
  timeout,     \* the timeout argument of the calls, in milliseconds
  store,       \* the redis keys of the breaker
  pc,          \* where each call is
  ckey,        \* the key argument of each call
  cmethod,     \* the decorated method, if any, through which each call came
               \* that is in flight or was the last to start
  error,       \* the error the operation of the call raised
  incrError,   \* the error the INCR of the call's pipeline reported
  ended,       \* the call that ended in the last step, if one did: how it
               \* ended, its fallbackResult argument if it came to read it,
               \* and what its pipeline reported if it issued one
  recorded,    \* per key: failures counted by INCR since the key was last
               \* cleared by a success or by the expiry of its time to live
  countedVia,  \* per key: the decorated methods whose failures were counted
               \* since the key was last cleared
  age,         \* per key: milliseconds since the last write to the present key
  lastRemoved  \* per key: how the counter was last removed and whether a
               \* call was admitted since, until the next write

vars == <<classConfig, methodConfig, finalConfig, limit, threshold, timeout,
          store, pc, ckey, cmethod, error, incrError, ended, recorded, countedVia,
          age, lastRemoved>>

config == <<classConfig, methodConfig, finalConfig, limit, threshold, timeout>>

\* The store keys of the circuits in use.
StoreKeys == DOMAIN store

Unread == "unread"
NoPipeline == "none"
\* What the pipeline reported, as handleCircuitBreakerError tells it apart.
Reported(results) ==
  IF results = NoResults THEN "noResults"
  ELSE IF results[1] # NoError THEN "incrError"
  ELSE IF results[2] # NoError THEN "expireError"
  ELSE "ok"
Ended(o, fb, rep) == [outcome |-> o, fallback |-> fb, pipeline |-> rep]
NotEnded == Ended(NoOutcome, Unread, NoPipeline)

\* No call was made yet and the store holds no counter of the circuits of
\* these key arguments.
InitCalls(keys) ==
  /\ store = [rk \in StoreKeysOf(keys) |-> Absent]
  /\ pc = [p \in Procs |-> "idle"]
  /\ ckey = [p \in Procs |-> <<"A">>]
  /\ cmethod = [p \in Procs |-> NoMethod]
  /\ error = [p \in Procs |-> NoError]
  /\ incrError = [p \in Procs |-> NoError]
  /\ ended = NotEnded
  /\ recorded = [rk \in StoreKeysOf(keys) |-> 0]
  /\ countedVia = [rk \in StoreKeysOf(keys) |-> {}]
  /\ age = [rk \in StoreKeysOf(keys) |-> 0]
  /\ lastRemoved = [rk \in StoreKeysOf(keys) |-> "none"]

\* No decorator stored a configuration.
Undecorated ==
  /\ classConfig = NoProps
  /\ methodConfig = NoProps
  /\ finalConfig = NoProps

\* The calls of a behaviour share their threshold and timeout, and every
\* caller may have a call in flight.
Init ==
  /\ Undecorated
  /\ limit = NumProcs
  /\ threshold \in Thresholds
  /\ timeout \in Timeouts
  /\ InitCalls(Keys)

\* The same, with the callers letting at most `limit` calls be in flight.
InitLimited ==
  /\ Undecorated
  /\ limit \in 1..NumProcs
  /\ threshold \in Thresholds
  /\ timeout \in Timeouts
  /\ InitCalls(Keys)

\* A class whose protected methods run with the largest threshold and the
\* shortest or the longest timeout.
InitDecorated ==
  /\ Undecorated
  /\ limit = NumProcs
  /\ threshold = MaxThreshold
  /\ timeout \in {TickMs, MaxTimeoutTicks * TickMs}
  /\ InitCalls(WrapperKeys)

\* A class and one of its methods decorated with any two configurations.
InitConfig ==
  /\ classConfig \in Configs
  /\ methodConfig \in Configs
  /\ finalConfig = NoProps
  /\ limit = NumProcs
  /\ threshold = MaxThreshold
  /\ timeout = MaxTimeoutTicks * TickMs
  /\ InitCalls(Keys)

RKey(p) == getCircuitBreakerKey(ckey[p])
InFlight(key) == {p \in Procs : pc[p] # "idle" /\ ckey[p] = key}

\* The bookkeeping of a write to rk that leaves the store st2.
Written(rk, st2) ==
  /\ age' = [age EXCEPT ![rk] = 0]
  /\ lastRemoved' = [lastRemoved EXCEPT ![rk] =
       IF st2[rk].present THEN "none"
       ELSE IF ~store[rk].present THEN @
       ELSE IF store[rk].value >= threshold THEN "clearedOpen"
       ELSE "cleared"]

\* execute(fn, key, threshold, timeout, fallbackResult) is invoked, through
\* the wrapper of `method` or directly.
Enter(p, key, method) ==
  /\ pc[p] = "idle"
  /\ Cardinality({q \in Procs : pc[q] # "idle"}) < limit
  /\ recorded[getCircuitBreakerKey(key)] + Cardinality(InFlight(key)) < MaxFailures
  /\ pc' = [pc EXCEPT ![p] = "get"]
  /\ ckey' = [ckey EXCEPT ![p] = key]
  /\ cmethod' = [q \in Procs |->
                   IF q = p THEN method
                   ELSE IF pc[q] = "idle" THEN NoMethod
                   ELSE cmethod[q]]
  /\ ended' = NotEnded
  /\ UNCHANGED <<config, store, error, incrError, recorded, countedVia, age, lastRemoved>>

\* A caller invokes execute directly.
Start(p, key) == Enter(p, key, NoMethod)

\* A caller invokes a decorated method: the wrapper builds the key and invokes
\* execute with it.
Invoke(p, method) == Enter(p, WrapperKey[method], method)

\* The wrapper merges the stored configurations.
Merge ==
  /\ finalConfig = NoProps
  /\ finalConfig' = MergeConfig(classConfig, methodConfig)
  /\ UNCHANGED <<classConfig, methodConfig, limit, threshold, timeout, store, pc,
                 ckey, cmethod, error, incrError, ended, recorded, countedVia, age,
                 lastRemoved>>

\* execute, lines 76-92: the GET is answered and the state decides; fallback
\* is the fallbackResult argument the caller passed.
GetStatus(p, fallback) ==
  /\ pc[p] = "get"
  /\ IF getCircuitBreakerStatus(store, ckey[p], threshold) = OPEN
     THEN /\ pc' = [pc EXCEPT ![p] = "idle"]
          /\ ended' = Ended(OpenOutcome(DefaultParam(fallback, JsNull)), fallback, NoPipeline)
          /\ store' = OpenStore(store, RKey(p))
          /\ UNCHANGED lastRemoved
     ELSE /\ pc' = [pc EXCEPT ![p] = "fn"]
          /\ ended' = NotEnded
          /\ lastRemoved' = [lastRemoved EXCEPT ![RKey(p)] =
                               IF @ = "expiredOpen" THEN "readmitted" ELSE @]
          /\ UNCHANGED store
  /\ UNCHANGED <<config, ckey, cmethod, error, incrError, recorded, countedVia, age>>

\* The GET fails: getCircuitBreakerStatus rejects, and so does execute.
GetFails(p) ==
  /\ pc[p] = "get"
  /\ pc' = [pc EXCEPT ![p] = "idle"]
  /\ ended' = Ended(Throw(RedisError), Unread, NoPipeline)
  /\ UNCHANGED <<config, store, ckey, cmethod, error, incrError, recorded,
                 countedVia, age, lastRemoved>>

\* The same in two steps. First the GET of the status read fails: the client
\* rejects it.
GetRejects(p) ==
  /\ pc[p] = "get"
  /\ pc' = [pc EXCEPT ![p] = "getFailed"]
  /\ ended' = NotEnded
  /\ UNCHANGED <<config, store, ckey, cmethod, error, incrError, recorded,
                 countedVia, age, lastRemoved>>

\* Then, execute, line 76: the call goes on after the GET was rejected.
StatusRejects(p) ==
  /\ pc[p] = "getFailed"
  /\ IF StatusFailure(RedisGetError) = NoOutcome
     THEN /\ pc' = [pc EXCEPT ![p] = "fn"]
          /\ ended' = NotEnded
     ELSE /\ pc' = [pc EXCEPT ![p] = "idle"]
          /\ ended' = Ended(StatusFailure(RedisGetError), Unread, NoPipeline)
  /\ UNCHANGED <<config, store, ckey, cmethod, error, incrError, recorded,
                 countedVia, age, lastRemoved>>

\* execute, line 94: the operation resolves.
FnSucceeds(p) ==
  /\ pc[p] = "fn"
  /\ pc' = [pc EXCEPT ![p] = "del"]
  /\ ended' = NotEnded
  /\ UNCHANGED <<config, store, ckey, cmethod, error, incrError, recorded, countedVia, age, lastRemoved>>

\* execute, lines 97-99: the DEL is carried out and the result returned.
Del(p) ==
  /\ pc[p] = "del"
  /\ store' = RedisDel(store, RKey(p))
  /\ pc' = [pc EXCEPT ![p] = "idle"]
  /\ ended' = Ended(Return(OperationResult), Unread, NoPipeline)
  /\ recorded' = [recorded EXCEPT ![RKey(p)] = 0]
  /\ countedVia' = [countedVia EXCEPT ![RKey(p)] = {}]
  /\ Written(RKey(p), store')
  /\ UNCHANGED <<config, ckey, cmethod, error, incrError>>

\* execute, lines 97-109: the DEL fails inside the try block; the error is
\* no HttpException and is thrown again.
DelFails(p) ==
  /\ pc[p] = "del"
  /\ pc' = [pc EXCEPT ![p] = "idle"]
  /\ ended' = Ended(Throw(RedisError), Unread, NoPipeline)
  /\ UNCHANGED <<config, store, ckey, cmethod, error, incrError, recorded, countedVia, age, lastRemoved>>

\* execute, lines 100-109: the operation rejects with error e.
FnFails(p, e) ==
  /\ pc[p] = "fn"
  /\ IF IsTripWorthy(e)
     THEN /\ pc' = [pc EXCEPT ![p] = "incr"]
          /\ error' = [error EXCEPT ![p] = e]
          /\ ended' = NotEnded
     ELSE /\ pc' = [pc EXCEPT ![p] = "idle"]
          /\ ended' = Ended(Throw(e), Unread, NoPipeline)
          /\ UNCHANGED error
  /\ UNCHANGED <<config, store, ckey, cmethod, incrError, recorded, countedVia, age, lastRemoved>>

\* handleCircuitBreakerError, line 49: the INCR of the pipeline is carried out.
PipelineIncr(p) ==
  /\ pc[p] = "incr"
  /\ store' = RedisIncr(store, RKey(p))
  /\ pc' = [pc EXCEPT ![p] = "expire"]
  /\ recorded' = [recorded EXCEPT ![RKey(p)] = @ + 1]
  /\ countedVia' = [countedVia EXCEPT ![RKey(p)] = @ \cup ({cmethod[p]} \ {NoMethod})]
  /\ Written(RKey(p), store')
  /\ ended' = NotEnded
  /\ UNCHANGED <<config, ckey, cmethod, error, incrError>>

\* The INCR of the pipeline reports an error; the pipeline goes on.
PipelineIncrFails(p) ==
  /\ pc[p] = "incr"
  /\ pc' = [pc EXCEPT ![p] = "expire"]
  /\ incrError' = [incrError EXCEPT ![p] = RedisError]
  /\ ended' = NotEnded
  /\ UNCHANGED <<config, store, ckey, cmethod, error, recorded, countedVia, age, lastRemoved>>

\* How execute ends once handleCircuitBreakerError has the pipeline's results:
\* lines 53-66 throw, or line 108 throws the operation's error again.
AfterPipeline(p, results) ==
  /\ pc' = [pc EXCEPT ![p] = "idle"]
  /\ ended' = Ended(IF HandleResults(results) = NoOutcome THEN Throw(error[p])
                    ELSE HandleResults(results), Unread, Reported(results))
  /\ error' = [error EXCEPT ![p] = NoError]
  /\ incrError' = [incrError EXCEPT ![p] = NoError]

\* handleCircuitBreakerError, lines 50-67: the EXPIRE of the pipeline is
\* carried out, the results arrive and execute ends.
PipelineExpire(p) ==
  /\ pc[p] = "expire"
  /\ store' = RedisExpire(store, RKey(p), ExpireSeconds(timeout))
  /\ AfterPipeline(p, PipelineResults(incrError[p], NoError))
  /\ IF store[RKey(p)].present
     THEN Written(RKey(p), store')
     ELSE UNCHANGED <<age, lastRemoved>>
  /\ UNCHANGED <<config, ckey, cmethod, recorded, countedVia>>

\* The EXPIRE of the pipeline reports an error.
PipelineExpireFails(p) ==
  /\ pc[p] = "expire"
  /\ AfterPipeline(p, PipelineResults(incrError[p], RedisError))
  /\ UNCHANGED <<config, store, ckey, cmethod, recorded, countedVia, age, lastRemoved>>

\* The pipeline resolves with no result list.
PipelineNoResults(p) ==
  /\ pc[p] = "incr"
  /\ AfterPipeline(p, NoResults)
  /\ UNCHANGED <<config, store, ckey, cmethod, recorded, countedVia, age, lastRemoved>>

\* The pipeline cannot be sent: exec rejects, and so does execute.
PipelineRejects(p) ==
  /\ pc[p] = "incr"
  /\ pc' = [pc EXCEPT ![p] = "idle"]
  /\ ended' = Ended(Throw(RedisError), Unread, "rejected")
  /\ error' = [error EXCEPT ![p] = NoError]
  /\ UNCHANGED <<config, store, ckey, cmethod, incrError, recorded, countedVia, age, lastRemoved>>

\* Half a second passes: times to live run down and redis removes the keys
\* whose time is up.
Expires(rk) == store[rk].present /\ store[rk].ttl # NoTtl /\ store[rk].ttl <= TickMs
Tick ==
  /\ store' = [rk \in StoreKeys |->
                 IF Expires(rk) THEN Absent
                 ELSE IF store[rk].present /\ store[rk].ttl # NoTtl
                      THEN [store[rk] EXCEPT !.ttl = @ - TickMs]
                      ELSE store[rk]]
  /\ age' = [rk \in StoreKeys |->
               IF ~store'[rk].present THEN 0
               ELSE IF age[rk] + TickMs > timeout THEN timeout
               ELSE age[rk] + TickMs]
  /\ recorded' = [rk \in StoreKeys |-> IF Expires(rk) THEN 0 ELSE recorded[rk]]
  /\ countedVia' = [rk \in StoreKeys |-> IF Expires(rk) THEN {} ELSE countedVia[rk]]
  /\ lastRemoved' = [rk \in StoreKeys |->
                       IF Expires(rk)
                       THEN IF store[rk].value >= threshold THEN "expiredOpen"
                            ELSE "expired"
                       ELSE lastRemoved[rk]]
  /\ ended' = NotEnded
  /\ UNCHANGED <<config, pc, ckey, cmethod, error, incrError>>

\* A caller invokes execute while no other call is in flight.
StartAlone(p, key) ==
  /\ \A q \in Procs : pc[q] = "idle"
  /\ Start(p, key)

\* The steps of the calls in flight and of time, with a store that carries out
\* every command.
Proceed ==
  \/ \E p \in Procs, fb \in FallbackValues : GetStatus(p, fb)
  \/ \E p \in Procs : FnSucceeds(p)
  \/ \E p \in Procs : Del(p)
  \/ \E p \in Procs, e \in OperationErrors : FnFails(p, e)
  \/ \E p \in Procs : PipelineIncr(p)
  \/ \E p \in Procs : PipelineExpire(p)
  \/ Tick

\* A caller invokes a decorated method while no other call is in flight.
InvokeAlone(p, method) ==
  /\ \A q \in Procs : pc[q] = "idle"
  /\ Invoke(p, method)

\* The steps of a store that carries out every command.
NextReliable ==
  \/ \E p \in Procs, key \in Keys : Start(p, key)
  \/ Proceed

\* The same, with calls made one after the other.
NextSequential ==
  \/ \E p \in Procs, key \in Keys : StartAlone(p, key)
  \/ Proceed

\* The steps in which a store command fails.
StoreFails ==
  \/ \E p \in Procs : GetFails(p)
  \/ \E p \in Procs : DelFails(p)
  \/ \E p \in Procs : PipelineIncrFails(p)
  \/ \E p \in Procs : PipelineExpireFails(p)
  \/ \E p \in Procs : PipelineNoResults(p)
  \/ \E p \in Procs : PipelineRejects(p)

Next == NextReliable \/ StoreFails

\* The steps of a store that fails no command but the GET of the status read.
NextReadFails ==
  \/ NextReliable
  \/ \E p \in Procs : GetRejects(p)
  \/ \E p \in Procs : StatusRejects(p)

\* The steps of calls made through the decorated methods, with a store that
\* carries out every command.
NextDecorated ==
  \/ \E p \in Procs, m \in Methods : InvokeAlone(p, m)
  \/ Proceed

\* Every behaviour of the breaker, store failures included.
Spec == Init /\ [][Next]_vars
\* The behaviours in which the store fails status reads only.
SpecReadFails == Init /\ [][NextReadFails]_vars
\* The behaviours in which the store carries out every command.
SpecReliable == Init /\ [][NextReliable]_vars
\* The behaviours of a reliable store in which no two calls overlap.
SpecSequential == Init /\ [][NextSequential]_vars
\* The behaviours of calls made one after the other through the decorated
\* methods of one class.
SpecDecorated == InitDecorated /\ [][NextDecorated]_vars
\* The behaviours of a reliable store for every limit on the calls in flight.
SpecLimited == InitLimited /\ [][NextReliable]_vars
\* The merge of the configurations of a decorated class and method.
SpecConfig == InitConfig /\ [][Merge]_vars

\* ------------------------------------------------------------- properties
CounterValue(rk) == IF store[rk].present THEN store[rk].value ELSE 0
\* The step is one of call p.
StepOf(p) == pc'[p] # pc[p]
\* The step is the one in which the GET of call p is answered.
GetAnswered(p) ==
  /\ pc[p] = "get" /\ StepOf(p) /\ pc'[p] # "getFailed"
  /\ ended' # Ended(Throw(RedisError), Unread, NoPipeline)
\* The counter of key is at or above the threshold.
CounterOpen(key) ==
  /\ store[getCircuitBreakerKey(key)].present
  /\ store[getCircuitBreakerKey(key)].value >= threshold
\* The call that ended in the step was rejected: fallback or circuit-open error.
RejectedNow ==
  /\ ended'.fallback # Unread
  /\ ended'.outcome \in {Return(ended'.fallback), Throw(CircuitOpenError)}
\* The classes of errors the documentation counts: 5xx and 429.
DocumentedTripWorthy(e) ==
  e.http /\ ((e.status >= 500 /\ e.status <= 599) \/ e.status = 429)

\* C1: with calls made one after the other, once threshold trip-worthy
\* failures were counted on a key, with no success and no expiry of the
\* counter since, the next call on that key is rejected, by the fallback or by
\* the circuit-open error, and does not invoke the operation. Stated for
\* every threshold and every timeout of the model, sub-second ones included.
C1_RejectedAfterThresholdFailures ==
  [][\A p \in Procs :
       (GetAnswered(p) /\ InFlight(ckey[p]) = {p} /\ recorded[RKey(p)] >= threshold)
         => (pc'[p] = "idle" /\ RejectedNow)]_vars

\* C2: for every stored count and every threshold, getCircuitBreakerStatus
\* is OPEN exactly when the counter is present and at least the threshold,
\* and CLOSED exactly when it is absent or below the threshold.
C2_StatusIsFunctionOfCount ==
  \A key \in Keys, thr \in 0..(MaxThreshold + MaxFailures) :
    LET c == store[getCircuitBreakerKey(key)]
        status == getCircuitBreakerStatus(store, key, thr)
    IN /\ (status = OPEN) <=> (c.present /\ c.value >= thr)
       /\ (status = CLOSED) <=> (~c.present \/ c.value < thr)
\* C2 witness: a call has just been rejected on a counter at the threshold.
C2_Witness ==
  \E key \in Keys :
    /\ CounterOpen(key)
    /\ getCircuitBreakerStatus(store, key, threshold) = OPEN
    /\ ended.fallback # Unread

\* C3: a call that finds the circuit OPEN and was given a fallback value
\* (anything but null or undefined) returns exactly that value and does not
\* invoke the operation.
C3_FallbackReturnedWhenOpen ==
  [][\A p \in Procs :
       (GetAnswered(p) /\ CounterOpen(ckey[p]))
         => /\ pc'[p] = "idle"
            /\ ended'.fallback \notin {Unread, JsNull, JsUndefined}
                 => ended'.outcome = Return(ended'.fallback)]_vars

\* C4: a call that finds the circuit OPEN and was given no fallback (null or
\* undefined) fails with the HttpException of status 503 and does not invoke
\* the operation.
C4_OpenWithoutFallbackThrows ==
  [][\A p \in Procs :
       (GetAnswered(p) /\ CounterOpen(ckey[p]))
         => /\ pc'[p] = "idle"
            /\ ended'.fallback # Unread
            /\ ended'.fallback \in {JsNull, JsUndefined}
                 => /\ ended'.outcome.kind = "throw"
                    /\ ended'.outcome.error.http
                    /\ ended'.outcome.error.status = 503
                    /\ ended'.outcome = Throw(CircuitOpenError)]_vars
\* C4 witness: a call without fallback has just been rejected with the 503.
C4_Witness ==
  /\ ended.fallback \in {JsNull, JsUndefined}
  /\ ended.outcome = Throw(CircuitOpenError)
  /\ \E key \in Keys : CounterOpen(key)

\* C5: a present counter with no EXPIRE of a pipeline pending on it was
\* written less than timeout milliseconds ago (so once timeout has passed
\* without a write the counter is absent), and a call whose GET is answered
\* after an OPEN counter expired and before any further write is admitted and
\* goes on to invoke the operation.
C5_ResetAfterTimeout ==
  [][/\ \A key \in Keys :
          (/\ store'[getCircuitBreakerKey(key)].present
           /\ ~\E q \in Procs : pc'[q] = "expire" /\ ckey'[q] = key)
            => age'[getCircuitBreakerKey(key)] < timeout
     /\ \A p \in Procs :
          (GetAnswered(p) /\ lastRemoved[RKey(p)] = "expiredOpen")
            => (~store[RKey(p)].present /\ pc'[p] = "fn")]_vars
\* C5 witness: a call was admitted after the OPEN counter expired, and is
\* running the operation.
C5_Witness ==
  \E p \in Procs :
    /\ pc[p] = "fn"
    /\ lastRemoved[RKey(p)] = "readmitted"
    /\ ~store[RKey(p)].present

\* C6: the DEL of a call whose operation succeeded removes the counter and
\* the call returns the operation's result; a status check on the resulting
\* store finds no counter and reports CLOSED for every threshold.
C6_SuccessClearsCounter ==
  [][\A p \in Procs :
       (pc[p] = "del" /\ StepOf(p))
         => /\ ~store'[RKey(p)].present
            /\ RedisGet(store', RKey(p)).isNull
            /\ ended'.outcome = Return(OperationResult)
            /\ \A thr \in Thresholds :
                 getCircuitBreakerStatus(store', ckey[p], thr) = CLOSED]_vars
\* C6 witness: a call has just returned the result after its DEL removed a
\* counter that held failures below the threshold.
C6_Witness ==
  /\ ended.outcome = Return(OperationResult)
  /\ \E key \in Keys : lastRemoved[getCircuitBreakerKey(key)] = "cleared"

\* C7: a call whose operation failed with an error that is not trip-worthy
\* (an HttpException of a status that is neither 5xx nor 429, or an error that
\* is no HttpException) makes no store mutation: no step the call takes from
\* that failure on changes the value or the time to live of any key.
C7_NonTripWorthyLeavesStore ==
  [][\A p \in Procs :
       /\ (pc[p] = "fn" /\ StepOf(p)) => store' = store
       /\ (pc[p] \in {"incr", "expire"} /\ StepOf(p)
           /\ ~DocumentedTripWorthy(error[p]))
            => store' = store]_vars

\* C8: the error of a failed operation is counted (the call goes on to the
\* INCR/EXPIRE pipeline) if and only if it is an HttpException with a status
\* in 500..599 or the status 429.
C8_CountedIffDocumented ==
  [][\A p \in Procs :
       (pc[p] = "fn" /\ StepOf(p) /\ pc'[p] # "del")
         => /\ pc'[p] = "incr" => DocumentedTripWorthy(error'[p])
            /\ pc'[p] = "idle" => ~DocumentedTripWorthy(ended'.outcome.error)]_vars

C10_NoLostIncrement ==
  \A key \in Keys :
    InFlight(key) = {}
      => CounterValue(getCircuitBreakerKey(key)) = recorded[getCircuitBreakerKey(key)]

\* C11: any two methods of the class decorated without a key of their own are
\* given one and the same store key; the INCR of a failed call through one of
\* them adds one to the count that the status read of the other finds, and a
\* call through one of them whose status read finds the counter of the other
\* at or above the threshold is rejected.
C11_UnkeyedMethodsShareCounter ==
  [][/\ \A m1 \in Unkeyed, m2 \in Unkeyed : CounterOf[m1] = CounterOf[m2]
     /\ \A p \in Procs, m2 \in Unkeyed :
          /\ (cmethod[p] \in Unkeyed /\ pc[p] = "incr" /\ StepOf(p))
               => RedisGet(store', CounterOf[m2]) =
                    [isNull |-> FALSE,
                     str |-> IntToString(CounterValue(CounterOf[m2]) + 1)]
          /\ (/\ cmethod[p] \in Unkeyed /\ GetAnswered(p)
              /\ store[CounterOf[m2]].present
              /\ store[CounterOf[m2]].value >= threshold)
               => (pc'[p] = "idle" /\ RejectedNow)]_vars
\* C11 witness: a call through updateUserData has just been rejected although
\* every failure counted since the counter was last cleared came from calls
\* through getUserData.
C11_Witness ==
  /\ \A p \in Procs : pc[p] = "idle"
  /\ \E p \in Procs : cmethod[p] = "updateUserData"
  /\ ended.fallback # Unread
  /\ ended.outcome \in {Return(ended.fallback), Throw(CircuitOpenError)}
  /\ countedVia[CounterOf["updateUserData"]] = {"getUserData"}
  /\ recorded[CounterOf["updateUserData"]] >= threshold

\* C12: no step of a call changes the counter or the time to live of a key
\* other than the call's own: whatever a call on one key does (admission,
\* rejection, DEL after a success, INCR and EXPIRE after a failure), the keys
\* of all other circuits are left as they were.
C12_OtherKeysUnchanged ==
  [][\A p \in Procs :
       StepOf(p)
         => \A k2 \in WrapperKeys \ {ckey'[p]} :
              store'[getCircuitBreakerKey(k2)] = store[getCircuitBreakerKey(k2)]]_vars
\* C12 witness: a call on the key shared by the unkeyed methods has just been
\* rejected, that counter being at the threshold, while the counter of the
\* keyed method still holds a single failure and its time to live.
C12_Witness ==
  /\ ended.fallback # Unread
  /\ \E p \in Procs : cmethod[p] = "getUserData"
  /\ \A p \in Procs : pc[p] = "idle"
  /\ CounterOpen(WrapperKey["getUserData"])
  /\ store[CounterOf["criticalOperation"]].present
  /\ store[CounterOf["criticalOperation"]].value = 1
  /\ store[CounterOf["criticalOperation"]].ttl # NoTtl
  /\ threshold > 1

\* C13: the merged configuration has exactly the fields present in the
\* default, the class-level or the method-level configuration, and each field
\* has the value of the method-level configuration if present there, else of
\* the class-level one if present there, else of the default.
C13_FieldWiseMerge ==
  finalConfig # NoProps
    => /\ DOMAIN finalConfig =
            DOMAIN DEFAULT_CIRCUIT_BREAKER_CONFIG \cup DOMAIN classConfig
              \cup DOMAIN methodConfig
       /\ \A f \in DOMAIN finalConfig :
            finalConfig[f] =
              IF f \in DOMAIN methodConfig THEN methodConfig[f]
              ELSE IF f \in DOMAIN classConfig THEN classConfig[f]
              ELSE DEFAULT_CIRCUIT_BREAKER_CONFIG[f]
\* C13 witness: a merge in which the method overrides the threshold of the
\* class, the timeout falls through to the class, the key to nothing and the
\* fallback comes from the method alone.
C13_Witness ==
  /\ finalConfig # NoProps
  /\ "threshold" \in DOMAIN classConfig \cap DOMAIN methodConfig
  /\ classConfig["threshold"] = "5" /\ methodConfig["threshold"] = "10"
  /\ finalConfig["threshold"] = "10"
  /\ "timeout" \in DOMAIN classConfig \ DOMAIN methodConfig
  /\ classConfig["timeout"] = "30000" /\ finalConfig["timeout"] = "30000"
  /\ "key" \notin DOMAIN finalConfig
  /\ "fallbackResult" \in DOMAIN methodConfig \ DOMAIN classConfig

\* C14: when the GET of the status read fails, the store is left as it was and
\* the call ends at once by throwing the error the GET raised: it neither goes
\* on to the operation nor reads its fallback, and it issues no store command.
C14_StatusReadFailurePropagates ==
  [][\A p \in Procs :
       /\ (pc[p] = "get" /\ pc'[p] = "getFailed") => store' = store
       /\ (pc[p] = "getFailed" /\ StepOf(p))
            => /\ pc'[p] = "idle"
               /\ ended'.outcome = Throw(RedisGetError)
               /\ ended'.fallback = Unread
               /\ store' = store]_vars
\* C14 witness: a call has just thrown the error of its failed GET while the
\* counter of its key is at the threshold.
C14_Witness ==
  /\ ended = Ended(Throw(RedisGetError), Unread, NoPipeline)
  /\ \E p \in Procs : pc[p] = "idle" /\ CounterOpen(ckey[p])

\* The step carries out a store command of call q: its GET, DEL, INCR or EXPIRE.
CommandOf(q) == StepOf(q) /\ pc[q] \in {"get", "del", "incr", "expire"}

\* C15: between the INCR and the EXPIRE that a call issues for one counted
\* failure, no GET, DEL, INCR or EXPIRE of another call on the same key is
\* carried out.
C15_IncrAndExpireAtomic ==
  [][\A p \in Procs, q \in Procs :
       (p # q /\ pc[p] = "expire" /\ incrError[p] = NoError /\ ckey[q] = ckey[p])
         => ~CommandOf(q)]_vars

\* The step is the passage of time alone.
TimePasses == \A p \in Procs : ~StepOf(p)

\* C16: the EXPIRE issued for a counted failure, finding the counter present,
\* sets its time to live to floor(timeout / 1000) seconds whatever time to
\* live remained (removing it at once when that is 0 seconds), and a counter
\* that expires does so exactly floor(timeout / 1000) seconds after the last
\* failure was counted on it.
C16_FailureRestartsTtl ==
  [][/\ \A p \in Procs :
          (pc[p] = "expire" /\ StepOf(p) /\ incrError[p] = NoError
           /\ store[RKey(p)].present)
            => IF ExpireSeconds(timeout) = 0 THEN ~store'[RKey(p)].present
               ELSE store'[RKey(p)] =
                      [store[RKey(p)] EXCEPT !.ttl = ExpireSeconds(timeout) * 1000]
     /\ \A rk \in StoreKeys :
          (TimePasses /\ store[rk].present /\ ~store'[rk].present)
            => age[rk] + TickMs = ExpireSeconds(timeout) * 1000]_vars

\* C17: a call whose pipeline reported an error for the INCR or for the
\* EXPIRE, or resolved without a result list, ends by throwing one of the two
\* errors of the failed counter update, never the operation's error and never
\* a result.
C17_BatchErrorIsStoreError ==
  [][\A p \in Procs :
       /\ (pc[p] = "expire" /\ StepOf(p) /\ incrError[p] # NoError)
            => ended'.outcome = Throw(IncrementFailedError)
       /\ (pc[p] \in {"incr", "expire"} /\ pc'[p] = "idle"
           /\ ended'.pipeline \in {"incrError", "expireError", "noResults"})
            => /\ ended'.outcome \in
                    {Throw(IncrementFailedError), Throw(ExpireFailedError)}
               /\ ended'.outcome.error \notin OperationErrors]_vars
\* C17 witness: a call has just thrown the error of the failed EXPIRE.
C17_Witness ==
  /\ ended.pipeline = "expireError"
  /\ ended.outcome = Throw(ExpireFailedError)

\* C18: a counter that is at or above the threshold, with the EXPIRE of every
\* failure counted on it carried out, goes back below the threshold only by
\* the expiry of its time to live, and every call whose status read is
\* answered while it is at or above the threshold is rejected.
C18_OpenUntilTimeout ==
  [][/\ \A key \in Keys :
          (/\ CounterOpen(key)
           /\ ~\E q \in Procs : pc[q] = "expire" /\ ckey[q] = key
           /\ ~CounterOpen(key)')
            => TimePasses
     /\ \A p \in Procs :
          (GetAnswered(p) /\ CounterOpen(ckey[p]))
            => (pc'[p] = "idle" /\ RejectedNow)]_vars

\* The calls on key that were admitted and whose failure is not yet counted.
Admitted(key) == {p \in InFlight(key) : pc[p] \in {"fn", "incr"}}

\* C19: with at most `limit` calls in flight at a time, the counter of a key
\* never exceeds threshold + limit - 1 (the threshold itself when calls do not
\* overlap), and while it is at or above the threshold at most limit - 1
\* admitted calls are still to run or to count their failure.
C19_OvershootBounded ==
  \A key \in Keys :
    /\ CounterValue(getCircuitBreakerKey(key)) <= threshold + limit - 1
    /\ CounterOpen(key) => Cardinality(Admitted(key)) <= limit - 1
\* C19 witness: with every caller allowed in flight, the counter stands at
\* threshold + limit - 1, above the threshold.
C19_Witness ==
  /\ limit = NumProcs
  /\ limit > 1
  /\ \E key \in Keys :
       CounterValue(getCircuitBreakerKey(key)) = threshold + limit - 1

\* C20: the step in which a call finds its circuit OPEN leaves every key of
\* the store, value and time to live, as it was, and ends the call, so that
\* the call issues no store command afterwards, whether it returns the
\* fallback or throws the circuit-open error.
C20_RejectionWritesNothing ==
  [][\A p \in Procs :
       (GetAnswered(p) /\ getCircuitBreakerStatus(store, ckey[p], threshold) = OPEN)
         => /\ store' = store
            /\ pc'[p] = "idle"
            /\ ended'.outcome \in {Return(ended'.fallback), Throw(CircuitOpenError)}]_vars
\* C20 witness: a call has just returned its fallback from an OPEN circuit
\* whose counter is still at the threshold with part of its time to live gone.
C20_Witness ==
  /\ ended.fallback # Unread
  /\ ended.outcome = Return(ended.fallback)
  /\ \E key \in Keys :
       /\ CounterOpen(key)
       /\ store[getCircuitBreakerKey(key)].ttl # NoTtl
       /\ store[getCircuitBreakerKey(key)].ttl < ExpireSeconds(timeout) * 1000

\* C21: whatever the class-level and the method-level configuration are, each
\* field absent, explicitly undefined or set to a value, the threshold and the
\* timeout that the wrapper hands to execute are numbers.
C21_ThresholdAndTimeoutNumeric ==
  finalConfig # NoProps
    => \A m \in Methods :
         /\ JsTypeOf(ExecuteArgs(ServiceClass, m, finalConfig).threshold) = "number"
         /\ JsTypeOf(ExecuteArgs(ServiceClass, m, finalConfig).timeout) = "number"

\* The key composed of the prefix, a scope and the call key of the
\* configuration, if it has one.
ComposedKey(scopeId, cfg) ==
  <<CIRCUIT_BREAKER_KEY_PREFIX, scopeId>>
    \o (IF Truthy(Prop(cfg, "key")) THEN <<cfg["key"]>> ELSE <<>>)
\* How many segments of the key are the prefix.
PrefixCount(rk) ==
  Cardinality({i \in DOMAIN rk : rk[i] = CIRCUIT_BREAKER_KEY_PREFIX})

\* C22: every store command of a call through a decorated method addresses
\* the key made of the prefix, one scope (the name of the service or of the
\* class) and the call key of the method if it has one, the prefix occurring
\* once in it; that key changes alone, and calls in flight through the same
\* method address the same key.
C22_KeyIsPrefixScopeCallKey ==
  [][\A p \in Procs :
       (cmethod[p] \in Methods /\ CommandOf(p))
         => /\ \E scopeId \in {getCircuitBreakerServiceName, ServiceClass} :
                 RKey(p) = ComposedKey(scopeId,
                                       MergeConfig(classConfig,
                                                   MethodConfigOf(cmethod[p])))
            /\ PrefixCount(RKey(p)) = 1
            /\ \A rk \in StoreKeys \ {RKey(p)} : store'[rk] = store[rk]
            /\ \A q \in Procs :
                 (pc[q] # "idle" /\ cmethod[q] = cmethod[p]) => RKey(q) = RKey(p)]_vars

====
